---- MODULE Spec2Model ----
(***************************************************************************)
(* State-machine model of the rstream client's session core:               *)
(*   client/src/stream/connection.c  (MyConnection: signaling, ENet)       *)
(*   client/src/stream/thread.c      (os_thread_helper)                    *)
(*   client/src/stream/stream_app.c  (pipeline handlers)                   *)
(*                                                                         *)
(* Three execution contexts touch a MyConnection:                          *)
(*   - the caller thread (android_main): connect(), disconnect(),          *)
(*     send_input_event();                                                 *)
(*   - the GMainLoop thread (stream_app_thread_func), on which the         *)
(*     completion callback of soup_session_websocket_connect_async runs;   *)
(*   - the ENet worker thread started by os_thread_helper_start.           *)
(* A handler is one action, except where it blocks (the join inside        *)
(* os_thread_helper_stop) or where another thread can observe its middle   *)
(* (connect() after the asynchronous attempt has been started, and         *)
(* os_thread_helper_start between pthread_create and running = true).      *)
(*                                                                         *)
(* Objects are named by the number of the connect() call that made them:   *)
(* host, peer, queue and worker thread n, socket n, pipeline n.            *)
(***************************************************************************)
EXTENDS Integers, Sequences, FiniteSets, TLC

\* Bounds of the model: numbers of calls the caller makes.
MaxConnects == 2
MaxDisconnects == 2
MaxSends == 1
\* and the calls of all three kinds together.
MaxCalls == 4
\* Bounds of the frame exchange: frames published, pulls made.
MaxFrames == 3
MaxPulls == 3
\* Bound of the queue specification: commands pushed in one session.
MaxQueued == 3
\* Bound of the status specification: conn_update_status calls in a row.
MaxUpdates == 2
\* Bounds of the pipeline specification: pipelines, set-pipeline calls.
MaxPipelines == 3
MaxSetPipelines == 4

NULL == 0

Ids == 0..MaxConnects
Sessions == 1..MaxConnects

\* The pipelines: attempt k's pipeline is pipeline k.
Pipelines == 1..(IF MaxPipelines > MaxConnects THEN MaxPipelines ELSE MaxConnects)

\* `ENetPacket *packet` holding no packet.
NoPacket == [id |-> NULL, sess |-> NULL]

\* The GCancellable made by my_connection_init; connect() number k makes token k.
InitToken == MaxConnects + 1

\* enum my_status
MY_STATUS_IDLE_NOT_CONNECTED == "IDLE_NOT_CONNECTED"
MY_STATUS_CONNECTING == "CONNECTING"
MY_STATUS_WEBSOCKET_FAILED == "WEBSOCKET_FAILED"
MY_STATUS_NEGOTIATING == "NEGOTIATING"
MY_STATUS_CONNECTED_NO_DATA == "CONNECTED_NO_DATA"
MY_STATUS_CONNECTED == "CONNECTED"
MY_STATUS_DISCONNECTED_ERROR == "DISCONNECTED_ERROR"
MY_STATUS_DISCONNECTED_REMOTE_CLOSE == "DISCONNECTED_REMOTE_CLOSE"

\* ENetEventType
ENET_EVENT_TYPE_NONE == "NONE"
ENET_EVENT_TYPE_CONNECT == "CONNECT"
ENET_EVENT_TYPE_DISCONNECT == "DISCONNECT"
ENET_EVENT_TYPE_RECEIVE == "RECEIVE"
ENET_EVENT_TYPE_DISCONNECT_TIMEOUT == "DISCONNECT_TIMEOUT"

\* The events with which enet_host_service returns a positive value.
ENetEvents ==
    { ENET_EVENT_TYPE_CONNECT, ENET_EVENT_TYPE_DISCONNECT, ENET_EVENT_TYPE_RECEIVE,
      ENET_EVENT_TYPE_DISCONNECT_TIMEOUT }

my_status ==
    { MY_STATUS_IDLE_NOT_CONNECTED, MY_STATUS_CONNECTING, MY_STATUS_WEBSOCKET_FAILED,
      MY_STATUS_NEGOTIATING, MY_STATUS_CONNECTED_NO_DATA, MY_STATUS_CONNECTED,
      MY_STATUS_DISCONNECTED_ERROR, MY_STATUS_DISCONNECTED_REMOTE_CLOSE }

VARIABLES
    \* struct _MyConnection
    status,         \* conn->status
    ws_cancel,      \* conn->ws_cancel: NULL or a token
    ws,             \* conn->ws: NULL or a socket
    pipeline,       \* conn->pipeline: NULL or a pipeline
    client,         \* conn->client: NULL or a host (possibly destroyed)
    peer,           \* conn->peer: NULL or a peer (possibly of a destroyed host)
    packet_queue,   \* conn->packet_queue: NULL or a queue (possibly released)
    thread,         \* conn->enet_thread.thread
    running,        \* conn->enet_thread.running
    \* objects the fields point to
    cancelled,      \* the tokens in the cancelled state
    closedWs,       \* the sockets closed by soup_websocket_connection_close
    queue,          \* queue n's contents
    attempt,        \* signaling attempt k: [st, tok, err, out]
    \* StreamApp
    appPipeline,    \* app->pipeline
    playing,        \* the pipelines in state PLAYING
    \* threads
    cpc,            \* caller thread: where it is inside connect()/disconnect()
    cjoin,          \* the thread the caller's os_thread_helper_stop joins
    lpc,            \* GMainLoop thread: where it is inside the callback
    ljoin,          \* the thread the callback's os_thread_helper_stop joins
    wpc,            \* worker thread n: where it is inside enet_thread_func
    held,           \* the packet the worker has popped and not yet sent
    event,          \* worker thread n's `ENetEvent event`: its type
    crashed,        \* "no", or how the process ended
    \* history
    nconn,          \* connect() calls made
    ndisc,          \* disconnect() calls made by the caller
    nsend,          \* send_input_event() calls made
    sendBudget,     \* send_input_event() calls the caller will make
    discCalls,      \* my_connection_disconnect bodies entered, by anyone
    cbDisconnects,  \* of these, by the completion callback
    lastCall,       \* the caller's last lifecycle call
    prevCall,       \* the caller's lifecycle call before that
    resets,         \* enet_peer_reset calls on peer n
    stops,          \* os_thread_helper_stop calls on thread n
    unrefs,         \* g_async_queue_unref calls on queue n
    destroys,       \* enet_host_destroy calls on host n
    dropEmits,      \* on-drop-pipeline emissions
    needEmits,      \* on-need-pipeline emissions of attempt k
    plays,          \* gst_element_set_state(PLAYING) calls of attempt k
    asyncConnects,  \* soup_session_websocket_connect_async calls
    hostConnects,   \* enet_host_connect calls
    given,          \* the pipelines given to my_connection_set_pipeline, in order
    pipeStops,      \* gst_element_set_state(GST_STATE_NULL) calls of set_pipeline on pipeline p
    pipeUnrefs,     \* gst_clear_object(&conn->pipeline) calls that released pipeline p
    emitted,        \* the signals emitted by the callback of attempt k, in order
    sent,           \* packets given to enet_peer_send: [cmd, host, ret]
    dropped         \* packets destroyed by the release of their queue

connVars == <<status, ws_cancel, ws, pipeline, client, peer, packet_queue, thread, running>>
objVars == <<cancelled, closedWs, queue, attempt, appPipeline, playing>>
threadVars == <<cpc, cjoin, lpc, ljoin, wpc, held, crashed>>
callVars == <<nconn, ndisc, nsend, sendBudget, discCalls, cbDisconnects, lastCall, prevCall>>
histVars == <<resets, stops, unrefs, destroys, dropEmits, needEmits, plays, sent, dropped>>
startVars == <<asyncConnects, hostConnects>>
pipeVars == <<given, pipeStops, pipeUnrefs>>
sessionVars == <<connVars, objVars, threadVars, event, callVars, histVars, startVars, pipeVars,
                 emitted>>

VARIABLES
    \* struct _StreamApp
    appsink,                \* app->appsink: NULL or the sink
    sample,                 \* app->sample: NULL or a frame
    sample_decode_end_ts,   \* app->sample_decode_end_ts
    \* the streaming thread inside on_new_sample_cb
    fpc,                    \* "idle", or "discard" past the locked block
    prevSample,             \* its local prevSample
    \* the render thread
    decodeEndTime,          \* main.cpp's decodeEndTime, given as out_decode_end
    prev_sample,            \* main.cpp's prev_sample
    \* history
    npub,                   \* frames published
    npull,                  \* stream_app_try_pull_sample calls made
    flog,                   \* the publishes and pulls, in the order of their locked blocks
    frameUnrefs,            \* gst_sample_unref calls of on_new_sample_cb on frame f
    draws,                  \* renderer->draw calls on frame f
    releases                \* stream_app_release_sample calls on frame f

renderVars == <<prev_sample, draws, releases>>
frameVars == <<appsink, sample, sample_decode_end_ts, fpc, prevSample, decodeEndTime,
               npub, npull, flog, frameUnrefs, renderVars>>

VARIABLES
    \* my_connection_send_input_event(conn, type, x, y)
    type,           \* the kind
    x,              \* the float x, as its bytes
    y,              \* the float y, as its bytes
    \* what my_connection_send_input_command_via_enet gives to enet_packet_create
    packet          \* [data, flags], or NoCommand before the call

encodeVars == <<type, x, y, packet>>

VARIABLES
    \* conn_update_status(conn, status) called on its own
    requested,      \* its argument
    reports         \* its calls: [from, to, changed], changed when it logged a transition

updateVars == <<requested, reports>>

nonSessionVars == <<frameVars, encodeVars, updateVars>>
nonFrameVars == <<sessionVars, encodeVars, updateVars>>
nonEncodeVars == <<sessionVars, frameVars, updateVars>>

vars == <<sessionVars, frameVars, encodeVars, updateVars>>

Alive == {"check", "drain", "send", "flush", "service", "handle"}

\* The connection after my_connection_new.
SessionInit ==
    /\ status = MY_STATUS_IDLE_NOT_CONNECTED
    /\ ws_cancel = InitToken
    /\ ws = NULL
    /\ pipeline = NULL
    /\ client = NULL
    /\ peer = NULL
    /\ packet_queue = NULL
    /\ thread = NULL
    /\ running = FALSE
    /\ cancelled = {}
    /\ closedWs = {}
    /\ queue = [n \in Ids |-> <<>>]
    /\ attempt = [k \in Sessions |-> [st |-> "none", tok |-> NULL, err |-> FALSE, out |-> "none"]]
    /\ appPipeline = NULL
    /\ playing = {}
    /\ cpc = "idle"
    /\ cjoin = NULL
    /\ lpc = "idle"
    /\ ljoin = NULL
    /\ wpc = [n \in Ids |-> "none"]
    /\ held = NoPacket
    /\ event = [n \in Ids |-> ENET_EVENT_TYPE_NONE]
    /\ crashed = "no"
    /\ nconn = 0
    /\ ndisc = 0
    /\ nsend = 0
    /\ discCalls = 0
    /\ cbDisconnects = 0
    /\ lastCall = "none"
    /\ prevCall = "none"
    /\ resets = [n \in Ids |-> 0]
    /\ stops = [n \in Ids |-> 0]
    /\ unrefs = [n \in Ids |-> 0]
    /\ destroys = [n \in Ids |-> 0]
    /\ dropEmits = 0
    /\ needEmits = [k \in Sessions |-> 0]
    /\ plays = [k \in Sessions |-> 0]
    /\ sent = <<>>
    /\ dropped = <<>>
    /\ asyncConnects = 0
    /\ hostConnects = 0
    /\ emitted = [k \in Sessions |-> <<>>]
    /\ given = <<>>
    /\ pipeStops = [p \in Pipelines |-> 0]
    /\ pipeUnrefs = [p \in Pipelines |-> 0]

(***************************************************************************)
(* Helpers                                                                 *)
(***************************************************************************)

\* Mutant of conn_update_status: the status already held is reset to idle.
conn_update_status_reset(current, req) ==
    IF req = current THEN MY_STATUS_IDLE_NOT_CONNECTED ELSE req

\* conn_update_status: the status after requesting `req` in `current`.
conn_update_status(current, req) ==
    IF req = current THEN current ELSE req

\* conn_update_status logs "already in" and returns, or logs the transition.
conn_update_status_logged(current, req) == req # current

\* No conn_update_status call made on its own.
UpdateIdle ==
    /\ requested = MY_STATUS_IDLE_NOT_CONNECTED
    /\ reports = <<>>

\* conn_update_status(conn, requested), called again with the same argument.
update_status ==
    /\ Len(reports) < MaxUpdates
    /\ status' = conn_update_status(status, requested)
    /\ reports' = Append(reports, [from |-> status,
                                   to |-> conn_update_status(status, requested),
                                   changed |-> conn_update_status_logged(status, requested)])
    /\ UNCHANGED <<ws_cancel, ws, pipeline, client, peer, packet_queue, thread, running,
                   objVars, threadVars, event, callVars, histVars, startVars, pipeVars,
                   emitted>>
    /\ UNCHANGED <<frameVars, encodeVars, requested>>

\* Mutant of HasPeer: the ENet half of the disconnect runs unguarded.
HasPeer_always == TRUE

\* `if (conn->peer)`, the guard of the ENet half of my_connection_disconnect.
HasPeer == peer # NULL

\* Mutant of EmitDropPipeline: the event is emitted only with a socket open.
EmitDropPipeline_if_ws(n) == IF ws # NULL THEN n + 1 ELSE n

\* g_signal_emit(conn, signals[SIGNAL_ON_DROP_PIPELINE], 0): the emission count after it.
EmitDropPipeline(n) == n + 1

\* on_drop_pipeline_cb: the pipelines left playing once app->pipeline is set to
\* GST_STATE_NULL and cleared.
on_drop_pipeline_cb(p) == IF p # NULL THEN playing \ {p} ELSE playing

\* Mutant of CancelledAfterDisconnect: the token is cleared but not cancelled.
CancelledAfterDisconnect_clear_only == cancelled

\* g_cancellable_cancel(conn->ws_cancel) under `if (conn->ws_cancel != NULL)`.
CancelledAfterDisconnect ==
    IF ws_cancel # NULL THEN cancelled \cup {ws_cancel} ELSE cancelled

\* soup_websocket_connection_close(conn->ws) under `if (conn->ws)`.
ClosedAfterDisconnect(wsNow) ==
    IF wsNow # NULL THEN closedWs \cup {wsNow} ELSE closedWs

\* os_thread_helper_stop, first half: tell the thread to leave its loop.
os_thread_helper_stop_signal == running' = FALSE

\* os_thread_helper_stop, second half: the join returns once thread t is gone.
os_thread_helper_stop_joined(t) == wpc[t] \notin Alive

\* Mutant of g_async_queue_push: the packet goes to the head of the queue.
g_async_queue_push_front(q, p) == <<p>> \o q

\* g_async_queue_push(conn->packet_queue, packet): the packet goes to the tail.
g_async_queue_push(q, p) == Append(q, p)

\* g_async_queue_new_full(enet_packet_destroy): a new, empty queue.
g_async_queue_new_full == <<>>

(***************************************************************************)
(* my_connection_disconnect                                                *)
(***************************************************************************)

\* Lines 296-311 but for ws_cancel: emit on-drop-pipeline, close and clear the
\* socket (wsNow is the socket held when the call is made), status to idle.
disconnect_signaling(wsNow) ==
    /\ dropEmits' = EmitDropPipeline(dropEmits)
    /\ playing' = on_drop_pipeline_cb(appPipeline)
    /\ appPipeline' = NULL
    /\ closedWs' = ClosedAfterDisconnect(wsNow)
    /\ ws' = NULL
    /\ status' = conn_update_status(status, MY_STATUS_IDLE_NOT_CONNECTED)
    /\ discCalls' = discCalls + 1

\* Lines 314-345: enet_peer_disconnect and enet_peer_reset on conn->peer. A
\* peer of a destroyed host is freed memory: the build either crashes there or
\* goes on (survive).
disconnect_peer_reset(survive) ==
    IF HasPeer
    THEN /\ resets' = [resets EXCEPT ![peer] = @ + 1]
         /\ crashed' = IF destroys[peer] > 0 /\ ~survive THEN "use_after_free" ELSE crashed
    ELSE UNCHANGED <<resets, crashed>>

\* Line 348: os_thread_helper_stop up to its join.
disconnect_thread_stop ==
    IF HasPeer
    THEN /\ stops' = [stops EXCEPT ![thread] = @ + 1]
         /\ os_thread_helper_stop_signal
    ELSE UNCHANGED <<stops, running>>

\* Lines 314-348 run in one piece: nobody is inside os_thread_helper_start.
disconnect_enet_begin(survive) ==
    /\ disconnect_peer_reset(survive)
    /\ disconnect_thread_stop

\* Mutant of disconnect_enet_finish: the queue and the host are released
\* without waiting for the worker to be gone.
disconnect_enet_finish_no_wait(t, survive) ==
    /\ wpc' = wpc
    /\ unrefs' = [unrefs EXCEPT ![packet_queue] = @ + 1]
    /\ queue' = [queue EXCEPT ![packet_queue] = <<>>]
    /\ dropped' = dropped \o queue[packet_queue]
    /\ destroys' = [destroys EXCEPT ![client] = @ + 1]
    /\ crashed' = IF (unrefs[packet_queue] > 0 \/ destroys[client] > 0) /\ ~survive
                  THEN "use_after_free" ELSE crashed

\* Lines 348-355: the join of thread t has returned; g_async_queue_unref on
\* conn->packet_queue (its destroy notify destroys the packets left), then
\* enet_host_destroy on conn->client. Releasing a released queue or host is a
\* double free: the build either crashes there or goes on (survive).
disconnect_enet_finish(t, survive) ==
    /\ os_thread_helper_stop_joined(t)
    /\ wpc' = [wpc EXCEPT ![t] = IF @ = "exited" THEN "joined" ELSE @]
    /\ unrefs' = [unrefs EXCEPT ![packet_queue] = @ + 1]
    /\ queue' = [queue EXCEPT ![packet_queue] = <<>>]
    /\ dropped' = dropped \o queue[packet_queue]
    /\ destroys' = [destroys EXCEPT ![client] = @ + 1]
    /\ crashed' = IF (unrefs[packet_queue] > 0 \/ destroys[client] > 0) /\ ~survive
                  THEN "use_after_free" ELSE crashed

\* disconnect() called by the caller thread (main.cpp APP_CMD_TERM_WINDOW).
my_connection_disconnect(survive) ==
    /\ crashed = "no" /\ cpc = "idle" /\ ndisc < MaxDisconnects
    /\ nconn + ndisc + nsend < MaxCalls
    /\ UNCHANGED nonSessionVars
    /\ UNCHANGED emitted
    /\ UNCHANGED pipeVars
    /\ UNCHANGED event
    /\ UNCHANGED startVars
    /\ ndisc' = ndisc + 1
    /\ prevCall' = lastCall /\ lastCall' = "disconnect"
    /\ cancelled' = CancelledAfterDisconnect
    /\ ws_cancel' = NULL
    /\ disconnect_signaling(ws)
    /\ disconnect_enet_begin(survive)
    /\ cpc' = IF HasPeer THEN "disc_join" ELSE "idle"
    /\ cjoin' = IF HasPeer THEN thread ELSE cjoin
    /\ UNCHANGED <<pipeline, client, peer, packet_queue, thread, queue, attempt,
                   lpc, ljoin, wpc, held, nconn, nsend, sendBudget, cbDisconnects,
                   unrefs, destroys, needEmits, plays, sent, dropped>>

\* The caller's disconnect() returns once the worker is joined and the queue
\* and host are released.
disconnect_joined(survive) ==
    /\ crashed = "no" /\ cpc = "disc_join"
    /\ UNCHANGED nonSessionVars
    /\ UNCHANGED emitted
    /\ UNCHANGED pipeVars
    /\ UNCHANGED event
    /\ UNCHANGED startVars
    /\ disconnect_enet_finish(cjoin, survive)
    /\ cpc' = "idle"
    /\ UNCHANGED <<connVars, cancelled, closedWs, attempt, appPipeline, playing,
                   cjoin, lpc, ljoin, held, callVars,
                   resets, stops, dropEmits, needEmits, plays, sent>>

(***************************************************************************)
(* my_connection_connect                                                   *)
(***************************************************************************)

\* Lines 514-528: a token if there is none (wc is conn->ws_cancel and canc the
\* cancelled tokens after the disconnect), g_cancellable_reset, and the
\* asynchronous attempt k started with that token.
connect_open_signaling(k, wc, canc) ==
    LET tok == IF wc = NULL THEN k ELSE wc IN
    /\ ws_cancel' = tok
    /\ cancelled' = canc \ {tok}
    /\ attempt' = [attempt EXCEPT ![k] = [st |-> "inflight", tok |-> tok, err |-> FALSE, out |-> "none"]]
    /\ asyncConnects' = asyncConnects + 1

\* connect() is entered: line 513, my_connection_disconnect, up to its join;
\* with no peer the disconnect is over and the attempt is started at once.
my_connection_connect(survive) ==
    /\ crashed = "no" /\ cpc = "idle" /\ nconn < MaxConnects
    /\ nconn + ndisc + nsend < MaxCalls
    /\ UNCHANGED nonSessionVars
    /\ UNCHANGED emitted
    /\ UNCHANGED pipeVars
    /\ UNCHANGED event
    /\ UNCHANGED hostConnects
    /\ nconn' = nconn + 1
    /\ prevCall' = lastCall /\ lastCall' = "connect"
    /\ disconnect_signaling(ws)
    /\ disconnect_enet_begin(survive)
    /\ IF HasPeer
       THEN /\ cpc' = "conn_join"
            /\ cjoin' = thread
            /\ cancelled' = CancelledAfterDisconnect
            /\ ws_cancel' = NULL
            /\ UNCHANGED <<attempt, asyncConnects>>
       ELSE /\ cpc' = "conn_mid"
            /\ cjoin' = cjoin
            /\ connect_open_signaling(nconn + 1, NULL, CancelledAfterDisconnect)
    /\ UNCHANGED <<pipeline, client, peer, packet_queue, thread, queue,
                   lpc, ljoin, wpc, held, ndisc, nsend, sendBudget, cbDisconnects,
                   unrefs, destroys, needEmits, plays, sent, dropped>>

\* The disconnect inside connect() returns (lines 348-355), and lines 514-528
\* start the attempt.
connect_joined(survive) ==
    /\ crashed = "no" /\ cpc = "conn_join"
    /\ UNCHANGED nonSessionVars
    /\ UNCHANGED emitted
    /\ UNCHANGED pipeVars
    /\ UNCHANGED event
    /\ UNCHANGED hostConnects
    /\ disconnect_enet_finish(cjoin, survive)
    /\ connect_open_signaling(nconn, ws_cancel, cancelled)
    /\ cpc' = "conn_mid"
    /\ UNCHANGED <<status, ws, pipeline, client, peer, packet_queue, thread, running,
                   closedWs, appPipeline, playing,
                   cjoin, lpc, ljoin, held, callVars,
                   resets, stops, dropEmits, needEmits, plays, sent>>

\* os_thread_helper_start up to pthread_create: -1 when oth->running is set
\* (then g_assert(ret == 0) aborts), else thread n exists and is at its loop test.
os_thread_helper_start(n) ==
    IF running
    THEN /\ crashed' = "assert_start"
         /\ UNCHANGED <<thread, wpc>>
    ELSE /\ thread' = n
         /\ wpc' = [wpc EXCEPT ![n] = "check"]
         /\ crashed' = crashed

\* Lines 530-561: status to connecting, enet_host_create, enet_host_connect,
\* g_async_queue_new_full, os_thread_helper_start up to pthread_create.
connect_enet ==
    /\ crashed = "no" /\ cpc = "conn_mid"
    /\ UNCHANGED nonSessionVars
    /\ UNCHANGED emitted
    /\ UNCHANGED pipeVars
    /\ UNCHANGED event
    /\ UNCHANGED asyncConnects
    /\ status' = conn_update_status(status, MY_STATUS_CONNECTING)
    /\ client' = nconn
    /\ peer' = nconn
    /\ hostConnects' = hostConnects + 1
    /\ packet_queue' = nconn
    /\ queue' = [queue EXCEPT ![nconn] = g_async_queue_new_full]
    /\ os_thread_helper_start(nconn)
    /\ cpc' = "conn_start"
    /\ UNCHANGED <<ws_cancel, ws, pipeline, running, cancelled, closedWs, attempt,
                   appPipeline, playing, cjoin, lpc, ljoin, held, callVars, histVars>>

\* os_thread_helper_start, after pthread_create: oth->running = true, unlock;
\* connect() returns.
connect_started ==
    /\ crashed = "no" /\ cpc = "conn_start"
    /\ UNCHANGED nonSessionVars
    /\ UNCHANGED emitted
    /\ UNCHANGED pipeVars
    /\ UNCHANGED event
    /\ UNCHANGED startVars
    /\ running' = TRUE
    /\ cpc' = "idle"
    /\ UNCHANGED <<status, ws_cancel, ws, pipeline, client, peer, packet_queue, thread,
                   objVars, cjoin, lpc, ljoin, wpc, held, crashed, callVars, histVars>>

(***************************************************************************)
(* conn_websocket_connected_cb, on the GMainLoop thread                    *)
(***************************************************************************)

\* pthread_mutex_lock(&oth->mutex) ... pthread_mutex_unlock(&oth->mutex) in
\* os_thread_helper_start: the caller is between pthread_create and the unlock.
StartHoldsMutex == cpc = "conn_start"

\* Mutant of ReturnsOnError: the callback goes on after an error.
ReturnsOnError_never(error) == FALSE

\* `if (error) { ...; return; }`: whether the callback returns before the
\* pipeline-needed event.
ReturnsOnError(error) == error

\* The record of an attempt whose callback has run: err, whether it completed
\* with an error; out, how the callback ended ("returned" after the error,
\* "playing" with the pipeline started, "nopipe" with the disconnect).
CallbackDone(a, error, out) == [a EXCEPT !.st = "done", !.err = error, !.out = out]

\* Mutant of my_connection_set_pipeline: a pipeline already attached is kept.
my_connection_set_pipeline_keep(p) == IF pipeline # NULL THEN pipeline ELSE p

\* my_connection_set_pipeline(conn, p): conn->pipeline afterwards.
my_connection_set_pipeline(p) == p

\* The whole of my_connection_set_pipeline(conn, p): the pipeline attached, if
\* any, is set to GST_STATE_NULL and released by gst_clear_object, then p is
\* attached.
set_pipeline(p) ==
    /\ pipeStops' = IF pipeline # NULL THEN [pipeStops EXCEPT ![pipeline] = @ + 1] ELSE pipeStops
    /\ pipeUnrefs' = IF pipeline # NULL THEN [pipeUnrefs EXCEPT ![pipeline] = @ + 1] ELSE pipeUnrefs
    /\ pipeline' = my_connection_set_pipeline(p)
    /\ given' = Append(given, p)

\* The set-pipeline action signal emitted by the collaborator on its own:
\* my_connection_set_pipeline(conn, p) with a pipeline p, attached or not.
emit_set_pipeline(p) ==
    /\ crashed = "no" /\ Len(given) < MaxSetPipelines
    /\ UNCHANGED nonSessionVars
    /\ UNCHANGED emitted
    /\ set_pipeline(p)
    /\ UNCHANGED <<status, ws_cancel, ws, client, peer, packet_queue, thread, running,
                   objVars, threadVars, event, callVars, histVars, startVars>>

\* Mutant of WsAfterFinish: the socket of attempt k is kept whatever the result.
WsAfterFinish_always(k, error) == k

\* conn->ws = g_object_ref_sink(soup_session_websocket_connect_finish(...)):
\* the socket of attempt k, or NULL when the attempt failed.
WsAfterFinish(k, error) == IF error THEN NULL ELSE k

\* Mutant of AfterFailure: a failed attempt is started again.
AfterFailure_retry(n) == n + 1

\* The error branch of the callback logs, emits websocket-failed and returns:
\* the soup_session_websocket_connect_async calls made (n) stay what they were.
AfterFailure(n) == n

\* Mutant of StatusAfterFailure: the error branch reports the failure.
StatusAfterFailure_failed(st) == conn_update_status(st, MY_STATUS_WEBSOCKET_FAILED)

\* The error branch of the callback (its conn_update_status call is commented
\* out): the status (st) is what it was.
StatusAfterFailure(st) == st

\* my_connection_send_bytes(conn, bytes): its return value with the status st.
my_connection_send_bytes(st) == st = MY_STATUS_CONNECTED

\* Mutant of SignalsOfCallback: on-need-pipeline before websocket-connected.
SignalsOfCallback_need_first(out) ==
    IF out = "returned" THEN <<"websocket-failed">>
    ELSE IF out = "assert_pipeline" THEN <<"websocket-connected">>
    ELSE <<"on-need-pipeline", "websocket-connected">>

\* The signals the callback emits, in order, by the way it ends (out): the
\* error branch emits websocket-failed; else websocket-connected is emitted,
\* g_assert_null(conn->pipeline) is passed, and on-need-pipeline is emitted.
SignalsOfCallback(out) ==
    IF out = "returned" THEN <<"websocket-failed">>
    ELSE IF out = "assert_pipeline" THEN <<"websocket-connected">>
    ELSE <<"websocket-connected", "on-need-pipeline">>

\* The completion of attempt k. error: soup_session_websocket_connect_finish
\* set the GError (always, when the attempt's token is cancelled); attach:
\* the on-need-pipeline handler emitted set-pipeline (on_need_pipeline_cb does;
\* with no handler connected nothing does); survive: as in
\* disconnect_peer_reset. os_thread_helper_stop takes the helper's mutex, which
\* os_thread_helper_start holds across pthread_create and running = true.
conn_websocket_connected_cb(k, error, attach, survive) ==
    /\ crashed = "no" /\ lpc = "idle"
    /\ UNCHANGED nonSessionVars
    /\ UNCHANGED event
    /\ UNCHANGED hostConnects
    /\ attempt[k].st = "inflight"
    /\ attempt[k].tok \in cancelled => error
    /\ IF ws # NULL
       THEN \* g_assert(!conn->ws)
            /\ crashed' = "assert_ws"
            /\ UNCHANGED emitted
            /\ UNCHANGED pipeVars
            /\ UNCHANGED asyncConnects
            /\ UNCHANGED <<connVars, objVars, cpc, cjoin, lpc, ljoin, wpc, held,
                           callVars, histVars>>
       ELSE IF ReturnsOnError(error)
       THEN \* conn->ws = g_object_ref_sink(NULL); websocket-failed; return
            /\ attempt' = [attempt EXCEPT ![k] = CallbackDone(@, error, "returned")]
            /\ emitted' = [emitted EXCEPT ![k] = SignalsOfCallback("returned")]
            /\ ws' = WsAfterFinish(k, error)
            /\ asyncConnects' = AfterFailure(asyncConnects)
            /\ status' = StatusAfterFailure(status)
            /\ UNCHANGED pipeVars
            /\ UNCHANGED <<ws_cancel, pipeline, client, peer, packet_queue,
                           thread, running, cancelled, closedWs, queue, appPipeline,
                           playing, threadVars, callVars, histVars>>
       ELSE IF pipeline # NULL
       THEN \* g_assert_null(conn->pipeline)
            /\ ws' = WsAfterFinish(k, error)
            /\ crashed' = "assert_pipeline"
            /\ emitted' = [emitted EXCEPT ![k] = SignalsOfCallback("assert_pipeline")]
            /\ UNCHANGED pipeVars
            /\ UNCHANGED asyncConnects
            /\ UNCHANGED <<status, ws_cancel, pipeline, client, peer, packet_queue,
                           thread, running, objVars, cpc, cjoin, lpc, ljoin, wpc, held,
                           callVars, histVars>>
       ELSE IF attach
       THEN \* on-need-pipeline; set-pipeline; gst_element_set_state(PLAYING)
            /\ ws' = WsAfterFinish(k, error)
            /\ needEmits' = [needEmits EXCEPT ![k] = @ + 1]
            /\ UNCHANGED asyncConnects
            /\ appPipeline' = k
            /\ set_pipeline(k)
            /\ playing' = playing \cup {k}
            /\ plays' = [plays EXCEPT ![k] = @ + 1]
            /\ attempt' = [attempt EXCEPT ![k] = CallbackDone(@, error, "playing")]
            /\ emitted' = [emitted EXCEPT ![k] = SignalsOfCallback("playing")]
            /\ UNCHANGED <<status, ws_cancel, client, peer, packet_queue, thread, running,
                           cancelled, closedWs, queue, threadVars, callVars,
                           resets, stops, unrefs, destroys, dropEmits, sent, dropped>>
       ELSE \* on-need-pipeline; no pipeline: my_connection_disconnect(conn); return
            /\ needEmits' = [needEmits EXCEPT ![k] = @ + 1]
            /\ UNCHANGED <<asyncConnects, pipeVars>>
            /\ cancelled' = CancelledAfterDisconnect
            /\ ws_cancel' = NULL
            /\ disconnect_signaling(WsAfterFinish(k, error))
            /\ disconnect_peer_reset(survive)
            /\ cbDisconnects' = cbDisconnects + 1
            /\ attempt' = [attempt EXCEPT ![k] = CallbackDone(@, error, "nopipe")]
            /\ emitted' = [emitted EXCEPT ![k] = SignalsOfCallback("nopipe")]
            /\ IF HasPeer /\ StartHoldsMutex
               THEN /\ lpc' = "cb_lock"
                    /\ UNCHANGED <<stops, running, ljoin>>
               ELSE /\ disconnect_thread_stop
                    /\ lpc' = IF HasPeer THEN "cb_join" ELSE "idle"
                    /\ ljoin' = IF HasPeer THEN thread ELSE ljoin
            /\ UNCHANGED <<pipeline, client, peer, packet_queue, thread, queue,
                           cpc, cjoin, wpc, held, nconn, ndisc, nsend, sendBudget,
                           lastCall, prevCall,
                           unrefs, destroys, plays, sent, dropped>>

\* The callback's os_thread_helper_stop gets the helper's mutex once
\* os_thread_helper_start has released it, and goes on to its join.
cb_disconnect_stop ==
    /\ crashed = "no" /\ lpc = "cb_lock" /\ ~StartHoldsMutex
    /\ UNCHANGED nonSessionVars
    /\ UNCHANGED emitted
    /\ UNCHANGED pipeVars
    /\ UNCHANGED event
    /\ UNCHANGED startVars
    /\ disconnect_thread_stop
    /\ lpc' = "cb_join"
    /\ ljoin' = thread
    /\ UNCHANGED <<status, ws_cancel, ws, pipeline, client, peer, packet_queue, thread,
                   objVars, cpc, cjoin, wpc, held, crashed, callVars,
                   resets, unrefs, destroys, dropEmits, needEmits, plays, sent, dropped>>

\* The disconnect inside the callback returns (lines 348-355).
cb_disconnect_joined(survive) ==
    /\ crashed = "no" /\ lpc = "cb_join"
    /\ UNCHANGED nonSessionVars
    /\ UNCHANGED emitted
    /\ UNCHANGED pipeVars
    /\ UNCHANGED event
    /\ UNCHANGED startVars
    /\ disconnect_enet_finish(ljoin, survive)
    /\ lpc' = "idle"
    /\ UNCHANGED <<connVars, cancelled, closedWs, attempt, appPipeline, playing,
                   cpc, cjoin, ljoin, held, callVars,
                   resets, stops, dropEmits, needEmits, plays, sent>>

(***************************************************************************)
(* my_connection_send_input_event, on the caller thread                    *)
(***************************************************************************)

\* g_async_queue_push(conn->packet_queue, packet). With no queue,
\* g_return_if_fail drops the packet; a released queue is freed memory: the
\* build crashes there or the packet is lost (survive).
my_connection_send_input_event(survive) ==
    /\ crashed = "no" /\ cpc = "idle" /\ nsend < sendBudget
    /\ nconn + ndisc + nsend < MaxCalls
    /\ UNCHANGED nonSessionVars
    /\ UNCHANGED emitted
    /\ UNCHANGED pipeVars
    /\ UNCHANGED event
    /\ UNCHANGED startVars
    /\ nsend' = nsend + 1
    /\ IF packet_queue = NULL
       THEN UNCHANGED <<queue, crashed>>
       ELSE IF unrefs[packet_queue] > 0
       THEN /\ crashed' = IF survive THEN crashed ELSE "use_after_free"
            /\ UNCHANGED queue
       ELSE /\ queue' = [queue EXCEPT ![packet_queue] =
                            g_async_queue_push(@, [id |-> nsend + 1, sess |-> nconn])]
            /\ UNCHANGED crashed
    /\ UNCHANGED <<connVars, cancelled, closedWs, attempt, appPipeline, playing,
                   cpc, cjoin, lpc, ljoin, wpc, held,
                   nconn, ndisc, sendBudget, discCalls, cbDisconnects, lastCall, prevCall,
                   histVars>>

(***************************************************************************)
(* enet_thread_func, worker thread n                                       *)
(***************************************************************************)

\* A worker step on a released queue or a destroyed host touches freed memory.
WorkerTouchesFreed == unrefs[packet_queue] > 0 \/ destroys[client] > 0

\* `while (conn->enet_thread.running)` and `if (!conn->client) continue;`
enet_thread_check(n) ==
    /\ crashed = "no" /\ wpc[n] = "check"
    /\ UNCHANGED nonSessionVars
    /\ UNCHANGED emitted
    /\ UNCHANGED pipeVars
    /\ UNCHANGED event
    /\ UNCHANGED startVars
    /\ wpc' = [wpc EXCEPT ![n] = IF ~running THEN "exited"
                                  ELSE IF client = NULL THEN "check" ELSE "drain"]
    /\ UNCHANGED <<connVars, objVars, cpc, cjoin, lpc, ljoin, held, crashed,
                   callVars, histVars>>

\* Mutant of g_async_queue_try_pop: the packet returned stays in the queue.
g_async_queue_try_pop_peek(q) == q

\* g_async_queue_try_pop on a queue q that is not empty: what is left of it.
g_async_queue_try_pop(q) == Tail(q)

\* Mutant of WorkerAfterDrain: with the queue empty the flush is left out.
WorkerAfterDrain_no_flush == "service"

\* `while ((packet = g_async_queue_try_pop(...)) != NULL)` ends: the statement
\* after the loop is enet_host_flush.
WorkerAfterDrain == "flush"

\* g_async_queue_try_pop(conn->packet_queue): a packet, or NULL and on to the flush.
enet_thread_pop(n, survive) ==
    /\ crashed = "no" /\ wpc[n] = "drain"
    /\ UNCHANGED nonSessionVars
    /\ UNCHANGED emitted
    /\ UNCHANGED pipeVars
    /\ UNCHANGED event
    /\ UNCHANGED startVars
    /\ IF WorkerTouchesFreed /\ ~survive
       THEN /\ crashed' = "use_after_free"
            /\ UNCHANGED <<queue, held, wpc>>
       ELSE /\ crashed' = crashed
            /\ IF queue[packet_queue] # <<>>
               THEN /\ held' = Head(queue[packet_queue])
                    /\ queue' = [queue EXCEPT ![packet_queue] = g_async_queue_try_pop(@)]
                    /\ wpc' = [wpc EXCEPT ![n] = "send"]
               ELSE /\ wpc' = [wpc EXCEPT ![n] = WorkerAfterDrain]
                    /\ UNCHANGED <<queue, held>>
    /\ UNCHANGED <<connVars, cancelled, closedWs, attempt, appPipeline, playing,
                   cpc, cjoin, lpc, ljoin, callVars, histVars>>

\* Mutant of WorkerAfterSend: a rejected send ends the worker.
WorkerAfterSend_stop(ret) == IF ret = 0 THEN "drain" ELSE "exited"

\* After enet_peer_send, whatever it returned, the inner while loop pops again.
WorkerAfterSend(ret) == "drain"

\* enet_peer_send(conn->peer, 0, packet): ret = 0 hands the packet to the
\* transport, else the worker destroys it; back to the pop.
enet_thread_send(n, ret, survive) ==
    /\ crashed = "no" /\ wpc[n] = "send"
    /\ UNCHANGED nonSessionVars
    /\ UNCHANGED emitted
    /\ UNCHANGED pipeVars
    /\ UNCHANGED event
    /\ UNCHANGED startVars
    /\ crashed' = IF WorkerTouchesFreed /\ ~survive THEN "use_after_free" ELSE crashed
    /\ sent' = Append(sent, [cmd |-> held, host |-> peer, ret |-> ret])
    /\ held' = NoPacket
    /\ wpc' = [wpc EXCEPT ![n] = WorkerAfterSend(ret)]
    /\ UNCHANGED <<connVars, objVars, cpc, cjoin, lpc, ljoin, callVars,
                   resets, stops, unrefs, destroys, dropEmits, needEmits, plays, dropped>>

\* enet_host_flush(conn->client)
enet_thread_flush(n, survive) ==
    /\ crashed = "no" /\ wpc[n] = "flush"
    /\ UNCHANGED nonSessionVars
    /\ UNCHANGED emitted
    /\ UNCHANGED pipeVars
    /\ UNCHANGED event
    /\ UNCHANGED startVars
    /\ crashed' = IF WorkerTouchesFreed /\ ~survive THEN "use_after_free" ELSE crashed
    /\ wpc' = [wpc EXCEPT ![n] = "service"]
    /\ UNCHANGED <<connVars, objVars, cpc, cjoin, lpc, ljoin, held, callVars, histVars>>

\* Mutant of enet_host_service: with no event the worker pops again without
\* testing `running`.
enet_host_service_no_test(n, ev) ==
    /\ event' = [event EXCEPT ![n] = ev]
    /\ wpc' = [wpc EXCEPT ![n] = IF ev = ENET_EVENT_TYPE_NONE THEN "drain" ELSE "handle"]

\* enet_host_service(conn->client, &event, timeout): it clears the event, then
\* returns 0, or a positive value with an event (ev) for handle_enet_event.
enet_host_service(n, ev) ==
    /\ event' = [event EXCEPT ![n] = ev]
    /\ wpc' = [wpc EXCEPT ![n] = IF ev = ENET_EVENT_TYPE_NONE THEN "check" ELSE "handle"]

\* Mutant of handle_enet_event: a lost peer makes the session idle.
handle_enet_event_notify(ev, st) ==
    IF ev \in {ENET_EVENT_TYPE_DISCONNECT, ENET_EVENT_TYPE_DISCONNECT_TIMEOUT}
    THEN conn_update_status(st, MY_STATUS_IDLE_NOT_CONNECTED) ELSE st

\* handle_enet_event(&event): every case of its switch logs (and destroys a
\* received packet); the status (st) is what it was.
handle_enet_event(ev, st) == st

\* `if (enet_host_service(conn->client, &event, 10) > 0)`
enet_thread_service(n, ev, survive) ==
    /\ crashed = "no" /\ wpc[n] = "service"
    /\ UNCHANGED nonSessionVars
    /\ UNCHANGED emitted
    /\ UNCHANGED pipeVars
    /\ UNCHANGED startVars
    /\ crashed' = IF WorkerTouchesFreed /\ ~survive THEN "use_after_free" ELSE crashed
    /\ enet_host_service(n, ev)
    /\ UNCHANGED <<connVars, objVars, cpc, cjoin, lpc, ljoin, held, callVars, histVars>>

\* handle_enet_event(&event), then `while (enet_host_service(conn->client,
\* &event, 0) > 0)`: another event to handle, or back to the loop test.
enet_thread_handle(n, ev, survive) ==
    /\ crashed = "no" /\ wpc[n] = "handle"
    /\ UNCHANGED nonSessionVars
    /\ UNCHANGED emitted
    /\ UNCHANGED pipeVars
    /\ UNCHANGED startVars
    /\ status' = handle_enet_event(event[n], status)
    /\ crashed' = IF WorkerTouchesFreed /\ ~survive THEN "use_after_free" ELSE crashed
    /\ enet_host_service(n, ev)
    /\ UNCHANGED <<ws_cancel, ws, pipeline, client, peer, packet_queue, thread, running,
                   objVars, cpc, cjoin, lpc, ljoin, held, callVars, histVars>>

(***************************************************************************)
(* The frame slot of StreamApp: on_new_sample_cb on the streaming thread,  *)
(* stream_app_try_pull_sample on the render thread                         *)
(***************************************************************************)

Frames == 1..MaxFrames

\* `struct timespec decodeEndTime;` of the render loop: declared in the loop
\* body and not initialised, so before each call it holds no timestamp.
Indeterminate == 0 - 1

\* stream_app_init: the calloc'ed StreamApp, no pipeline made yet.
FrameInit ==
    /\ appsink = NULL
    /\ sample = NULL
    /\ sample_decode_end_ts = 0
    /\ fpc = "idle"
    /\ prevSample = NULL
    /\ decodeEndTime = Indeterminate
    /\ npub = 0
    /\ npull = 0
    /\ flog = <<>>
    /\ frameUnrefs = [f \in Frames |-> 0]
    /\ prev_sample = NULL
    /\ draws = [f \in Frames |-> 0]
    /\ releases = [f \in Frames |-> 0]

\* create_pipeline: app->appsink = gst_element_factory_make("appsink", NULL),
\* with on_new_sample_cb as its new-sample callback.
create_pipeline ==
    /\ appsink = NULL
    /\ appsink' = 1
    /\ UNCHANGED <<sample, sample_decode_end_ts, fpc, prevSample, decodeEndTime,
                   npub, npull, flog, frameUnrefs, renderVars>>
    /\ UNCHANGED nonFrameVars

\* clock_gettime(CLOCK_MONOTONIC, &ts) at the arrival of frame f.
clock_gettime(f) == 10 * f

\* Mutant of ProducerMayPublish: the producer waits for an empty slot.
ProducerMayPublish_when_empty == sample = NULL

\* The locked block of on_new_sample_cb waits for nothing but sample_mutex,
\* which the consumer holds for its swap only.
ProducerMayPublish == TRUE

\* Mutant of SlotAfterPublish: a frame in the slot is kept (drop-newest).
SlotAfterPublish_keep_old(new) == IF sample # NULL THEN sample ELSE new

\* `app->sample = sample` in the locked block of on_new_sample_cb.
SlotAfterPublish(new) == new

\* Mutant of TsAfterPublish: the timestamp of a frame still in the slot is kept.
TsAfterPublish_keep_old(ts) == IF sample # NULL THEN sample_decode_end_ts ELSE ts

\* `app->sample_decode_end_ts = ts` in the locked block of on_new_sample_cb.
TsAfterPublish(ts) == ts

\* on_new_sample_cb up to the end of its locked block: frame npub + 1 is
\* pulled from the appsink and swapped into the slot under sample_mutex.
\* (When clock_gettime fails the callback returns before, changing nothing.)
on_new_sample_cb ==
    /\ appsink # NULL /\ fpc = "idle" /\ npub < MaxFrames
    /\ ProducerMayPublish
    /\ npub' = npub + 1
    /\ prevSample' = sample
    /\ sample' = SlotAfterPublish(npub + 1)
    /\ sample_decode_end_ts' = TsAfterPublish(clock_gettime(npub + 1))
    /\ flog' = Append(flog, [op |-> "publish", f |-> npub + 1])
    /\ fpc' = "discard"
    /\ UNCHANGED <<appsink, decodeEndTime, npull, frameUnrefs, renderVars>>
    /\ UNCHANGED nonFrameVars

\* on_new_sample_cb after the locked block: `if (prevSample)
\* gst_sample_unref(prevSample)`, return GST_FLOW_OK.
on_new_sample_discard ==
    /\ fpc = "discard"
    /\ frameUnrefs' = IF prevSample # NULL
                      THEN [frameUnrefs EXCEPT ![prevSample] = @ + 1]
                      ELSE frameUnrefs
    /\ prevSample' = NULL
    /\ fpc' = "idle"
    /\ UNCHANGED <<appsink, sample, sample_decode_end_ts, decodeEndTime, npub, npull, flog,
                   renderVars>>
    /\ UNCHANGED nonFrameVars

\* Mutant of SlotAfterPull: the slot is copied, not emptied.
SlotAfterPull_copy == sample

\* `app->sample = NULL` in the locked block of stream_app_try_pull_sample.
SlotAfterPull == NULL

\* Mutant of OutDecodeEnd: the output is written whatever was in the slot.
OutDecodeEnd_always(got, decode_end, out) == decode_end

\* `if (sample == NULL) return NULL; *out_decode_end = decode_end;`
OutDecodeEnd(got, decode_end, out) == IF got = NULL THEN out ELSE decode_end

\* stream_app_try_pull_sample(app, &decodeEndTime): NULL with no appsink; else
\* the slot's content is taken under sample_mutex and, when it is a frame,
\* returned with its timestamp.
stream_app_try_pull_sample ==
    /\ npull < MaxPulls
    /\ npull' = npull + 1
    /\ IF appsink = NULL
       THEN /\ flog' = Append(flog, [op |-> "nosink", f |-> NULL])
            /\ decodeEndTime' = Indeterminate
            /\ UNCHANGED sample
       ELSE /\ flog' = Append(flog, [op |-> "pull", f |-> sample])
            /\ sample' = SlotAfterPull
            /\ decodeEndTime' = OutDecodeEnd(sample, sample_decode_end_ts, Indeterminate)
    /\ UNCHANGED <<appsink, sample_decode_end_ts, fpc, prevSample, npub, frameUnrefs>>
    /\ UNCHANGED nonFrameVars

\* What stream_app_try_pull_sample returns to the render loop.
Pulled == IF appsink = NULL THEN NULL ELSE sample

\* `if (sample == nullptr || video_width * video_height == 0) { ...; continue; }`
SkipsFrame(got, video_width, video_height) == got = NULL \/ video_width * video_height = 0

\* One iteration of the render loop of android_main, from the pull on:
\* video_width and video_height are what stream_app_get_video_width and
\* stream_app_get_video_height return. A skipped iteration goes back to the
\* top of the loop; else the sample is drawn, prev_sample is released and the
\* sample becomes prev_sample.
android_main_render(video_width, video_height) ==
    /\ stream_app_try_pull_sample
    /\ IF SkipsFrame(Pulled, video_width, video_height)
       THEN UNCHANGED renderVars
       ELSE /\ draws' = [draws EXCEPT ![Pulled] = @ + 1]
            /\ releases' = IF prev_sample # NULL
                           THEN [releases EXCEPT ![prev_sample] = @ + 1]
                           ELSE releases
            /\ prev_sample' = Pulled

(***************************************************************************)
(* The input command encoder: my_connection_send_input_event and           *)
(* my_connection_send_input_command_via_enet                               *)
(***************************************************************************)

\* InputType (input.h): CursorLeftDown = 0 ... GamepadButtonSelect.
CursorMove == 4
CursorScroll == 5
GamepadLeftStick == 18
GamepadRightStick == 19
GamepadButtonSelect == 21
InputType == 0..GamepadButtonSelect

\* A float is its four bytes in memory order (the target is little-endian):
\* 0.0, 1.0, 10.0, 20.0, -1.0, a NaN, and two patterns with four different or
\* four set bytes.
FloatBytes ==
    { <<0, 0, 0, 0>>, <<0, 0, 128, 63>>, <<0, 0, 32, 65>>, <<0, 0, 160, 65>>,
      <<0, 0, 128, 191>>, <<0, 0, 192, 127>>, <<4, 3, 2, 1>>, <<255, 255, 255, 255>> }

\* No packet made yet.
NoCommand == [data |-> <<>>, flags |-> "none"]

\* The encoder at rest, as it is in the specifications of the other components.
EncodeIdle ==
    /\ type = 0
    /\ x = <<0, 0, 0, 0>>
    /\ y = <<0, 0, 0, 0>>
    /\ packet = NoCommand

\* sizeof(InputCommand) under #pragma pack(push, 1): uint8_t, uint32_t, uint32_t.
sizeof_InputCommand == 1 + 4 + 4

COMMAND_SIZE == sizeof_InputCommand

\* ENetPacketFlag flag of my_connection_send_input_command_via_enet.
PacketFlag(t) ==
    IF t = CursorMove \/ t = GamepadLeftStick \/ t = GamepadRightStick
    THEN "UNSEQUENCED" ELSE "RELIABLE"

\* memcpy(dst, &v, sizeof(uint32_t)): the four bytes of v as they are in memory.
memcpy32(v) == <<v[1], v[2], v[3], v[4]>>

\* `cmd.type = type`: an int stored into a uint8_t.
CmdType(t) == t % 256

\* InputCommand cmd of my_connection_send_input_event: type, and x and y
\* copied into data0 and data1.
InputCommand(t, fx, fy) == [type |-> CmdType(t), data0 |-> memcpy32(fx), data1 |-> memcpy32(fy)]

\* Mutant of Buffer: data1 is copied before data0.
Buffer_swapped(cmd) == <<cmd.type>> \o memcpy32(cmd.data1) \o memcpy32(cmd.data0)

\* uint8_t buffer[sizeof(InputCommand)] once filled: type at offset 0, data0 at
\* offset 1, data1 at offset 5.
Buffer(cmd) == <<cmd.type>> \o memcpy32(cmd.data0) \o memcpy32(cmd.data1)

\* my_connection_send_input_event(conn, type, x, y) down to enet_packet_create:
\* the packet of COMMAND_SIZE bytes with its flag, or none when the offset
\* differs from COMMAND_SIZE.
my_connection_send_input_command_via_enet ==
    /\ packet = NoCommand
    /\ LET cmd == InputCommand(type, x, y)
           buffer == Buffer(cmd)
           offset == Len(buffer)
       IN packet' = IF offset = COMMAND_SIZE
                    THEN [data |-> SubSeq(buffer, 1, COMMAND_SIZE), flags |-> PacketFlag(cmd.type)]
                    ELSE packet
    /\ UNCHANGED <<type, x, y>>
    /\ UNCHANGED nonEncodeVars

(***************************************************************************)
(* Specification                                                           *)
(***************************************************************************)

Caller ==
    \/ \E survive \in BOOLEAN : my_connection_connect(survive)
    \/ \E survive \in BOOLEAN : connect_joined(survive)
    \/ connect_enet
    \/ connect_started
    \/ \E survive \in BOOLEAN : my_connection_disconnect(survive)
    \/ \E survive \in BOOLEAN : disconnect_joined(survive)
    \/ \E survive \in BOOLEAN : my_connection_send_input_event(survive)

MainLoop ==
    \/ \E k \in Sessions, error, attach, survive \in BOOLEAN :
          conn_websocket_connected_cb(k, error, attach, survive)
    \/ cb_disconnect_stop
    \/ \E survive \in BOOLEAN : cb_disconnect_joined(survive)

\* The outcomes of a worker step: two (crash or go on) when it touches freed
\* memory, one otherwise.
WorkerOutcomes == IF WorkerTouchesFreed THEN BOOLEAN ELSE {TRUE}

Worker ==
    \E n \in Sessions :
        \/ enet_thread_check(n)
        \/ \E survive \in WorkerOutcomes : enet_thread_pop(n, survive)
        \/ \E ret \in {0, -1}, survive \in WorkerOutcomes : enet_thread_send(n, ret, survive)
        \/ \E survive \in WorkerOutcomes : enet_thread_flush(n, survive)
        \/ \E ev \in ENetEvents \cup {ENET_EVENT_TYPE_NONE}, survive \in WorkerOutcomes :
               enet_thread_service(n, ev, survive)
        \/ \E ev \in ENetEvents \cup {ENET_EVENT_TYPE_NONE}, survive \in WorkerOutcomes :
               enet_thread_handle(n, ev, survive)

Init == SessionInit /\ sendBudget = MaxSends /\ FrameInit /\ EncodeIdle /\ UpdateIdle

Next == Caller \/ MainLoop \/ Worker

Spec == Init /\ [][Next]_vars

\* The frame exchange alone: the streaming thread publishes, the render thread pulls.
NextFrame ==
    \/ create_pipeline
    \/ on_new_sample_cb
    \/ on_new_sample_discard
    \/ \E video_width \in {0, 1280}, video_height \in {0, 720} :
           android_main_render(video_width, video_height)

SpecFrame == Init /\ [][NextFrame]_vars

\* One session, from the return of the first connect(): the caller pushes
\* commands, the worker drains them.
InitQueue ==
    /\ status = MY_STATUS_CONNECTING
    /\ ws_cancel = 1
    /\ ws = NULL
    /\ pipeline = NULL
    /\ client = 1
    /\ peer = 1
    /\ packet_queue = 1
    /\ thread = 1
    /\ running = TRUE
    /\ cancelled = {InitToken}
    /\ closedWs = {}
    /\ queue = [n \in Ids |-> <<>>]
    /\ attempt = [k \in Sessions |->
                     IF k = 1 THEN [st |-> "inflight", tok |-> 1, err |-> FALSE, out |-> "none"]
                     ELSE [st |-> "none", tok |-> NULL, err |-> FALSE, out |-> "none"]]
    /\ appPipeline = NULL
    /\ playing = {}
    /\ cpc = "idle"
    /\ cjoin = NULL
    /\ lpc = "idle"
    /\ ljoin = NULL
    /\ wpc = [n \in Ids |-> IF n = 1 THEN "check" ELSE "none"]
    /\ held = NoPacket
    /\ event = [n \in Ids |-> ENET_EVENT_TYPE_NONE]
    /\ crashed = "no"
    /\ nconn = 1
    /\ ndisc = 0
    /\ nsend = 0
    /\ sendBudget = MaxQueued
    /\ discCalls = 1
    /\ cbDisconnects = 0
    /\ lastCall = "connect"
    /\ prevCall = "none"
    /\ resets = [n \in Ids |-> 0]
    /\ stops = [n \in Ids |-> 0]
    /\ unrefs = [n \in Ids |-> 0]
    /\ destroys = [n \in Ids |-> 0]
    /\ dropEmits = 1
    /\ needEmits = [k \in Sessions |-> 0]
    /\ plays = [k \in Sessions |-> 0]
    /\ sent = <<>>
    /\ dropped = <<>>
    /\ asyncConnects = 1
    /\ hostConnects = 1
    /\ emitted = [k \in Sessions |-> <<>>]
    /\ given = <<>>
    /\ pipeStops = [p \in Pipelines |-> 0]
    /\ pipeUnrefs = [p \in Pipelines |-> 0]
    /\ FrameInit
    /\ EncodeIdle
    /\ UpdateIdle

NextQueue ==
    \/ \E survive \in BOOLEAN : my_connection_send_input_event(survive)
    \/ Worker

SpecQueue == InitQueue /\ [][NextQueue]_vars

\* my_connection_set_pipeline alone: the collaborator gives pipelines, any of
\* them and in any order.
NextPipeline == \E p \in Pipelines : emit_set_pipeline(p)

SpecPipeline == Init /\ [][NextPipeline]_vars

\* conn_update_status alone, on every status held and every status requested.
InitStatus ==
    /\ status \in my_status
    /\ requested \in my_status
    /\ reports = <<>>
    /\ ws_cancel = InitToken /\ ws = NULL /\ pipeline = NULL /\ client = NULL /\ peer = NULL
    /\ packet_queue = NULL /\ thread = NULL /\ running = FALSE
    /\ cancelled = {} /\ closedWs = {} /\ queue = [n \in Ids |-> <<>>]
    /\ attempt = [k \in Sessions |-> [st |-> "none", tok |-> NULL, err |-> FALSE, out |-> "none"]]
    /\ appPipeline = NULL /\ playing = {}
    /\ cpc = "idle" /\ cjoin = NULL /\ lpc = "idle" /\ ljoin = NULL
    /\ wpc = [n \in Ids |-> "none"] /\ held = NoPacket
    /\ event = [n \in Ids |-> ENET_EVENT_TYPE_NONE] /\ crashed = "no"
    /\ nconn = 0 /\ ndisc = 0 /\ nsend = 0 /\ sendBudget = MaxSends
    /\ discCalls = 0 /\ cbDisconnects = 0 /\ lastCall = "none" /\ prevCall = "none"
    /\ resets = [n \in Ids |-> 0] /\ stops = [n \in Ids |-> 0]
    /\ unrefs = [n \in Ids |-> 0] /\ destroys = [n \in Ids |-> 0]
    /\ dropEmits = 0 /\ needEmits = [k \in Sessions |-> 0] /\ plays = [k \in Sessions |-> 0]
    /\ sent = <<>> /\ dropped = <<>> /\ asyncConnects = 0 /\ hostConnects = 0
    /\ given = <<>> /\ pipeStops = [p \in Pipelines |-> 0] /\ pipeUnrefs = [p \in Pipelines |-> 0]
    /\ emitted = [k \in Sessions |-> <<>>]
    /\ FrameInit /\ EncodeIdle

NextStatus == update_status

SpecStatus == InitStatus /\ [][NextStatus]_vars

\* The encoder alone, on every kind and on the sample values.
InitEncode ==
    /\ SessionInit /\ sendBudget = MaxSends /\ FrameInit /\ UpdateIdle
    /\ type \in InputType
    /\ x \in FloatBytes
    /\ y \in FloatBytes
    /\ packet = NoCommand

NextEncode == my_connection_send_input_command_via_enet

SpecEncode == InitEncode /\ [][NextEncode]_vars

\* The steps that finish a call the caller thread is inside of.
CallerContinues ==
    \/ \E survive \in BOOLEAN : connect_joined(survive)
    \/ connect_enet
    \/ connect_started
    \/ \E survive \in BOOLEAN : disconnect_joined(survive)

\* Threads that can run do run: the worker, the main loop (an attempt in
\* flight completes, with success or with an error) and a call in progress.
\* The caller is free never to call again.
FairSpec ==
    Spec /\ WF_vars(CallerContinues) /\ WF_vars(MainLoop) /\ WF_vars(Worker)

\* `while (enet_host_service(conn->client, &event, 0) > 0)` does not wait: it
\* returns 0 once the events already received have been handled.
EventsRunOut ==
    \E n \in Sessions, survive \in WorkerOutcomes :
        enet_thread_handle(n, ENET_EVENT_TYPE_NONE, survive)

\* FairSpec, and the events already received are finitely many.
FairSpecEvents == FairSpec /\ WF_vars(EventsRunOut)

(***************************************************************************)
(* Claims                                                                  *)
(***************************************************************************)

Disconnected ==
    { MY_STATUS_IDLE_NOT_CONNECTED, MY_STATUS_WEBSOCKET_FAILED,
      MY_STATUS_DISCONNECTED_ERROR, MY_STATUS_DISCONNECTED_REMOTE_CLOSE }

\* C1: after connect(), two disconnect() calls in a row by the caller complete
\* without error, reset no peer, stop no worker, release no queue and destroy
\* no host a second time, and leave the status idle.
C1_DoubleDisconnectReleasesOnce ==
    (nconn >= 1 /\ lastCall = "disconnect" /\ prevCall = "disconnect" /\ cbDisconnects = 0)
    => /\ crashed # "use_after_free"
       /\ \A n \in Sessions :
              resets[n] <= 1 /\ stops[n] <= 1 /\ unrefs[n] <= 1 /\ destroys[n] <= 1
       /\ cpc = "idle" => status = MY_STATUS_IDLE_NOT_CONNECTED

\* C2: as long as connect() was never called, disconnect() completes without
\* error, resets no peer, stops no worker, releases no queue, destroys no host,
\* and the status is idle.
C2_DisconnectBeforeConnect ==
    nconn = 0
    => /\ crashed = "no"
       /\ cpc = "idle"
       /\ status = MY_STATUS_IDLE_NOT_CONNECTED
       /\ \A n \in Ids :
              /\ resets[n] = 0 /\ stops[n] = 0 /\ unrefs[n] = 0 /\ destroys[n] = 0
              /\ wpc[n] = "none"

\* C2 witness: disconnect() has run twice on a connection never connected.
C2_Witness ==
    nconn = 0 /\ ndisc = 2 /\ discCalls = 2 /\ ws_cancel = NULL /\ InitToken \in cancelled

\* C3: once the queue of connect() number n >= 2 exists, the worker of the
\* session before has stopped and its queue and host have been released exactly
\* once; never do two workers run; starting the worker never fails.
C3_PriorSessionReleasedOnce ==
    /\ \A n \in Sessions :
           (n >= 2 /\ packet_queue >= n /\ cbDisconnects = 0)
           => /\ wpc[n - 1] \notin Alive
              /\ unrefs[n - 1] = 1
              /\ destroys[n - 1] = 1
    /\ Cardinality({n \in Sessions : wpc[n] \in Alive}) <= 1
    /\ crashed # "assert_start"

\* C4: every packet the transport accepted was enqueued during the session
\* whose peer it was sent to.
C4_NoCrossSessionSend ==
    \A i \in DOMAIN sent : sent[i].cmd.sess = sent[i].host

\* C4 witness: a packet enqueued in session 1 was destroyed with its queue, and
\* the worker of session 2 has drained the new queue without sending it.
C4_Witness ==
    /\ \E i \in DOMAIN dropped : dropped[i].sess = 1
    /\ peer = 2 /\ wpc[2] = "flush" /\ sent = <<>> /\ crashed = "no"

\* C5: when the latest attempt succeeded and no pipeline was attached, then
\* with connect() and the callback returned the status is neither connecting
\* nor negotiating, and no pipeline was started for the attempt.
C5_NoPipelineEndsDisconnected ==
    \A k \in Sessions :
        (attempt[k].out = "nopipe" /\ nconn = k /\ cpc = "idle" /\ lpc = "idle")
        => /\ status \notin {MY_STATUS_CONNECTING, MY_STATUS_NEGOTIATING}
           /\ plays[k] = 0

\* C6: when the latest attempt completed with an error, then with connect()
\* returned the status has left connecting for a failed or disconnected status.
C6_SignalingErrorLeavesConnecting ==
    \A k \in Sessions :
        (attempt[k].st = "done" /\ attempt[k].err /\ nconn = k /\ cpc = "idle")
        => status \in Disconnected

\* C7: an attempt that completed with an error emitted no pipeline-needed
\* event and set no pipeline to playing.
C7_ErrorEmitsNoPipelineNeeded ==
    \A k \in Sessions :
        (attempt[k].st = "done" /\ attempt[k].err)
        => needEmits[k] = 0 /\ plays[k] = 0 /\ k \notin playing

\* C7 witness: an attempt failed without having been cancelled (refused), and
\* another one after having been cancelled.
C7_Witness ==
    /\ \E k \in Sessions :
           attempt[k].st = "done" /\ attempt[k].err /\ attempt[k].tok \notin cancelled
    /\ \E k \in Sessions :
           attempt[k].st = "done" /\ attempt[k].err /\ attempt[k].tok \in cancelled

\* C8: once signaling succeeded and the pipeline is attached and playing, the
\* status eventually becomes connected (unless the session is dropped or the
\* process ends first).
C8_EventuallyConnected ==
    \A k \in Sessions :
        [](k \in playing
           => <>(status = MY_STATUS_CONNECTED \/ k \notin playing \/ crashed # "no"))

\* C9: a step that enters my_connection_disconnect with a pipeline attached
\* emits pipeline-dropped exactly once, and the rest of the call (the step
\* after the join) emits none.
C9_DropPipelineOncePerDisconnect ==
    [][ /\ (pipeline # NULL /\ discCalls' = discCalls + 1) => dropEmits' = dropEmits + 1
        /\ discCalls' = discCalls => dropEmits' = dropEmits ]_vars

\* C9 witness: a pipeline was attached and a disconnect has dropped it.
C9_Witness ==
    pipeline # NULL /\ appPipeline = NULL /\ playing = {} /\ dropEmits >= 1 /\ crashed = "no"

C11_ConnectPostState ==
    [][ /\ (cpc = "conn_start" /\ cpc' = "idle")
            => /\ status' = MY_STATUS_CONNECTING
               /\ \A j \in Sessions :
                      (j < nconn /\ attempt'[j].st = "inflight")
                      => attempt'[j].tok \in cancelled'
               /\ \A j \in Sessions : attempt'[j].st # "none" <=> j <= nconn
        /\ \A k \in Sessions :
               (attempt[k].st = "none" /\ attempt'[k].st # "none")
               => /\ k = nconn'
                  /\ attempt'[k].st = "inflight"
                  /\ attempt'[k].tok = ws_cancel'
                  /\ attempt'[k].tok \notin cancelled' ]_vars

(***************************************************************************)
(* Claims on the frame slot (SpecFrame)                                    *)
(***************************************************************************)

\* The number of pulls that returned frame f.
Pulls(f) == Cardinality({m \in DOMAIN flog : flog[m].op = "pull" /\ flog[m].f = f})

\* C12: when two publishes follow each other with no pull between, the first
\* frame is never returned by a pull and is released once; of the pulls that
\* follow with no publish between, the first returns the second frame and the
\* later ones return empty.
C12_DropOldest ==
    \A i \in 1..(Len(flog) - 1) :
        (flog[i].op = "publish" /\ flog[i + 1].op = "publish")
        => /\ Pulls(flog[i].f) = 0
           /\ frameUnrefs[flog[i].f] = IF prevSample = flog[i].f THEN 0 ELSE 1
           /\ \A k \in (i + 2)..Len(flog) :
                  (flog[k].op = "pull" /\ \A m \in (i + 2)..k : flog[m].op # "publish")
                  => flog[k].f = IF \E m \in (i + 2)..(k - 1) : flog[m].op = "pull"
                                 THEN NULL ELSE flog[i + 1].f

\* C12 witness: publish, publish, a pull that got the second frame, a pull
\* that got nothing; the first frame is released.
C12_Witness ==
    /\ Len(flog) >= 4
    /\ \E i \in 1..(Len(flog) - 3) :
           /\ flog[i].op = "publish" /\ flog[i + 1].op = "publish"
           /\ flog[i + 2] = [op |-> "pull", f |-> flog[i + 1].f]
           /\ flog[i + 3] = [op |-> "pull", f |-> NULL]
           /\ frameUnrefs[flog[i].f] = 1

\* The frames published and neither returned nor released nor about to be released.
Unclaimed ==
    {f \in Frames : f <= npub /\ Pulls(f) = 0 /\ frameUnrefs[f] = 0 /\ prevSample # f}

\* C13: the frames published and not yet claimed or discarded are at most one,
\* the one in the slot; and the producer, when it has a frame, can publish it
\* whatever the slot holds.
C13_OneFrameNeverBlocks ==
    /\ Cardinality(Unclaimed) <= 1
    /\ Unclaimed = IF sample = NULL THEN {} ELSE {sample}
    /\ (appsink # NULL /\ fpc = "idle" /\ npub < MaxFrames) => ENABLED on_new_sample_cb

\* C13 witness: the slot is occupied, an earlier frame was discarded, and the
\* producer has more frames to publish.
C13_Witness ==
    /\ sample # NULL /\ fpc = "idle" /\ npub < MaxFrames
    /\ \E f \in Frames : frameUnrefs[f] = 1

\* C14: a frame is returned by a pull or released by a later publish at most
\* once in all; a published frame no longer in the slot was returned once or
\* is released once (or is about to be); and the slot is empty right after a
\* pull.
C14_TakenOrDiscardedOnce ==
    /\ \A f \in Frames :
           /\ Pulls(f) + frameUnrefs[f] <= 1
           /\ (f <= npub /\ sample # f /\ prevSample # f) => Pulls(f) + frameUnrefs[f] = 1
           /\ f > npub => Pulls(f) + frameUnrefs[f] = 0
    /\ (flog # <<>> /\ flog[Len(flog)].op = "pull") => sample = NULL

\* C14 witness: one frame was returned by a pull, another one discarded by a
\* publish, and a third one is in the slot.
C14_Witness ==
    /\ \E f \in Frames : Pulls(f) = 1
    /\ \E f \in Frames : frameUnrefs[f] = 1
    /\ sample # NULL

\* C15: a pull on an empty slot returns empty, leaves the slot empty and the
\* timestamp output unwritten; and a pull is enabled whatever the slot holds.
C15_EmptyPull ==
    [][ /\ (npull' = npull + 1 /\ sample = NULL)
            => /\ flog'[Len(flog')].f = NULL
               /\ sample' = NULL
               /\ decodeEndTime' = Indeterminate
               /\ sample_decode_end_ts' = sample_decode_end_ts
        /\ npull < MaxPulls => ENABLED stream_app_try_pull_sample ]_vars

\* C15 witness: two pulls in a row returned empty after a frame had been
\* published and pulled.
C15_Witness ==
    /\ Len(flog) >= 3
    /\ flog[Len(flog)] = [op |-> "pull", f |-> NULL]
    /\ flog[Len(flog) - 1] = [op |-> "pull", f |-> NULL]
    /\ sample_decode_end_ts > 0 /\ decodeEndTime = Indeterminate

\* C27: a frame is released by the render loop at most once, and a frame that
\* a pull returned is prev_sample or has been released.
C27_TakenSampleReleasedOnce ==
    \A f \in Frames :
        /\ releases[f] <= 1
        /\ Pulls(f) = 1 => (prev_sample = f \/ releases[f] = 1)

\* C36: a frame in the slot has beside it the timestamp taken by the callback
\* that published it, and the step of a pull that returns a frame gives out
\* the timestamp taken at the arrival of that frame.
C36_TimestampOfReturnedFrame ==
    [][ /\ sample' # NULL => sample_decode_end_ts' = clock_gettime(sample')
        /\ (npull' = npull + 1 /\ Pulled # NULL) => decodeEndTime' = clock_gettime(Pulled) ]_vars

\* C36 witness: the second frame replaced the first one in the slot and, with
\* the streaming thread still between its locked block and the unref of the
\* first frame, a pull has returned the second frame with its timestamp.
C36_Witness ==
    /\ fpc = "discard" /\ prevSample = 1
    /\ flog # <<>> /\ flog[Len(flog)] = [op |-> "pull", f |-> 2]
    /\ decodeEndTime = clock_gettime(2)

(***************************************************************************)
(* Claims on the encoder (SpecEncode)                                      *)
(***************************************************************************)

\* C17: the packet made for a kind is unsequenced (unreliable) exactly when the
\* kind is cursor move, cursor scroll, gamepad left stick or gamepad right
\* stick, and reliable for every other kind.
C17_UnreliableKinds ==
    packet # NoCommand
    => (packet.flags = "UNSEQUENCED"
            <=> type \in {CursorMove, CursorScroll, GamepadLeftStick, GamepadRightStick})
       /\ packet.flags \in {"UNSEQUENCED", "RELIABLE"}

\* C18: the packet made for any kind and values is exactly 12 bytes long.
C18_TwelveBytes ==
    packet # NoCommand => Len(packet.data) = 12

\* C19: for any kind and values a packet is made; its byte 0 is the kind, its
\* bytes 1-4 are the bytes of x and its bytes 5-8 the bytes of y, unchanged.
C19_RoundTrip ==
    /\ ENABLED my_connection_send_input_command_via_enet \/ packet # NoCommand
    /\ packet # NoCommand
       => /\ packet.data[1] = type
          /\ SubSeq(packet.data, 2, 5) = x
          /\ SubSeq(packet.data, 6, 9) = y

\* C19 witness: a packet made for the last kind, a negative x and a y of four
\* different bytes.
C19_Witness ==
    /\ packet # NoCommand
    /\ type = GamepadButtonSelect /\ x = <<0, 0, 128, 191>> /\ y = <<4, 3, 2, 1>>

(***************************************************************************)
(* Claims on the outbound queue (SpecQueue)                                *)
(***************************************************************************)

\* C16: the commands are given to the transport in the order they were
\* enqueued, each once; and on the step that takes the worker from the pop loop
\* to the flush, every command enqueued so far (so every command that was in
\* the queue when the iteration began) has been given to the transport.
C16_FifoDrain ==
    [][ /\ \A i, j \in DOMAIN sent' : i < j => sent'[i].cmd.id < sent'[j].cmd.id
        /\ \A n \in Sessions :
               (wpc[n] = "drain" /\ wpc'[n] = "flush")
               => \A id \in 1..nsend : \E i \in DOMAIN sent' : sent'[i].cmd.id = id ]_vars

\* C16 witness: three commands were queued before the worker popped any, and
\* the worker is at the flush with all given to the transport, in order.
C16_Witness ==
    /\ wpc[1] = "flush" /\ nsend = 3
    /\ Len(sent) = 3 /\ sent[1].cmd.id = 1 /\ sent[2].cmd.id = 2 /\ sent[3].cmd.id = 3

\* C20: the step on which enet_peer_send rejects a packet discards that packet
\* and takes the worker back to the pop, and leaves the status, the queue, the
\* ENet objects and the worker's running flag as they were.
C20_RejectedSendGoesOn ==
    [][ (Len(sent') = Len(sent) + 1 /\ sent'[Len(sent')].ret # 0)
        => /\ held' = NoPacket
           /\ \E n \in Sessions : wpc[n] = "send" /\ wpc' = [wpc EXCEPT ![n] = "drain"]
           /\ status' = status
           /\ queue' = queue
           /\ running' = running
           /\ <<client, peer, packet_queue, thread>>' = <<client, peer, packet_queue, thread>>
           /\ crashed' = crashed ]_vars

\* C20 witness: a send was rejected, the next command was given to the
\* transport, and the worker has gone on to the flush.
C20_Witness ==
    /\ Len(sent) >= 2 /\ sent[1].ret # 0 /\ sent[2].ret = 0
    /\ wpc[1] = "flush"
    /\ status = MY_STATUS_CONNECTING /\ running /\ crashed = "no"

(***************************************************************************)
(* Claims on the session, continued                                        *)
(***************************************************************************)

\* C21: once a worker has received a peer-disconnect event, the status
\* eventually is a disconnected one (or the process has ended).
C21_PeerDisconnectSurfaces ==
    \A n \in Sessions :
        [](event[n] = ENET_EVENT_TYPE_DISCONNECT
           => <>(status \in Disconnected \/ crashed # "no"))

\* C22: the signaling attempts started and the transport connects started are
\* never more than the connect() calls made, and as many once no connect() is
\* in progress, whatever failed in between.
C22_NoSilentRetry ==
    /\ asyncConnects <= nconn /\ hostConnects <= nconn
    /\ cpc \in {"idle", "disc_join"} => asyncConnects = nconn /\ hostConnects = nconn

\* C22 witness: two connect() calls returned; the first attempt failed, the
\* second found no pipeline and disconnected, and the worker has been told that
\* the peer is gone.
C22_Witness ==
    /\ nconn = 2 /\ cpc = "idle" /\ asyncConnects = 2 /\ hostConnects = 2
    /\ attempt[1].st = "done" /\ attempt[1].err
    /\ attempt[2].out = "nopipe"
    /\ \E n \in Sessions : event[n] = ENET_EVENT_TYPE_DISCONNECT

C24_DisconnectReleasesPipeline ==
    (lastCall = "disconnect" /\ cpc = "idle") => pipeline = NULL

\* C26: a send call made with no queue, or with a queue that a disconnect has
\* released, pushes nothing, touches no released queue and leaves the process
\* running.
C26_SendWithoutTransportDropped ==
    [][ (nsend' = nsend + 1 /\ (packet_queue = NULL \/ unrefs[packet_queue] > 0))
        => queue' = queue /\ crashed' = crashed ]_vars

\* C29: the status changes only on a step that enters my_connection_disconnect
\* (called by the caller, by connect() or by the completion callback) or on
\* the step of connect() that sets it connecting; the steps of the worker (pop,
\* send, flush, service, event dispatch), a send call and set-pipeline leave it
\* as it was.
C29_StatusOnlyByLifecycle ==
    [][ /\ status' # status
            => \/ discCalls' = discCalls + 1
               \/ cpc = "conn_mid" /\ cpc' = "conn_start"
        /\ (nsend' # nsend \/ sent' # sent \/ held' # held \/ event' # event \/ given' # given)
            => status' = status ]_vars

\* C29 witness: with the status connecting, a pipeline was attached, a command
\* was sent by the worker and the worker is handling a peer-disconnect event.
C29_Witness ==
    /\ status = MY_STATUS_CONNECTING /\ pipeline # NULL /\ given # <<>>
    /\ nsend = 1 /\ sent # <<>>
    /\ \E n \in Sessions : wpc[n] = "handle" /\ event[n] = ENET_EVENT_TYPE_DISCONNECT

\* C30: a command popped by the worker is given to enet_peer_send once, which
\* accepts it or has the worker destroy it; it is not given twice, a command
\* the worker holds is no longer in a queue, and no command the worker popped
\* is destroyed by the release of its queue.
C30_PoppedDisposedOnce ==
    /\ \A i, j \in DOMAIN sent : i # j => sent[i].cmd # sent[j].cmd
    /\ \A i \in DOMAIN sent :
           /\ sent[i].cmd # NoPacket
           /\ sent[i].cmd # held
           /\ \A j \in DOMAIN dropped : dropped[j] # sent[i].cmd
           /\ \A n \in Ids : \A j \in DOMAIN queue[n] : queue[n][j] # sent[i].cmd
    /\ held # NoPacket
       => /\ \A j \in DOMAIN dropped : dropped[j] # held
          /\ \A n \in Ids : \A j \in DOMAIN queue[n] : queue[n][j] # held
    /\ \A i, j \in DOMAIN dropped : i # j => dropped[i] # dropped[j]

\* C30 witness: the worker popped a command, the transport rejected it and the
\* worker destroyed it; then a disconnect() released the queue, empty.
C30_Witness ==
    /\ Len(sent) = 1 /\ sent[1].ret # 0 /\ held = NoPacket
    /\ unrefs[1] = 1 /\ dropped = <<>> /\ lastCall = "disconnect" /\ cpc = "idle"
    /\ crashed = "no"

(***************************************************************************)
(* Claims on conn_update_status (SpecStatus)                               *)
(***************************************************************************)

\* C28: a call of conn_update_status leaves the status requested; a call that
\* requests the status held leaves it as it was and logs no transition; so the
\* second of two calls with the same argument changes and logs nothing.
C28_SameStatusNoOp ==
    /\ \A i \in DOMAIN reports :
           /\ reports[i].to = requested
           /\ reports[i].from = requested
              => reports[i].to = reports[i].from /\ ~reports[i].changed
           /\ reports[i].from # requested => reports[i].changed
    /\ reports # <<>> => status = reports[Len(reports)].to
    /\ Len(reports) >= 2
       => reports[2].from = reports[1].to /\ reports[2].to = reports[1].to /\ ~reports[2].changed

\* C28 witness: a status was requested twice while another one was held; the
\* first call made the transition, the second was a no-op.
C28_Witness ==
    /\ Len(reports) = 2 /\ reports[1].changed /\ ~reports[2].changed
    /\ status = MY_STATUS_CONNECTED /\ reports[1].from = MY_STATUS_CONNECTING

(***************************************************************************)
(* Claims on my_connection_set_pipeline (SpecPipeline)                     *)
(***************************************************************************)

\* The calls of my_connection_set_pipeline that gave pipeline p.
Given(p) == Cardinality({i \in DOMAIN given : given[i] = p})

\* C25: after any sequence of set-pipeline calls the pipeline attached is the
\* last one given; every pipeline given was released once for each time it was
\* given, but for the last call's; and it was set to GST_STATE_NULL each time
\* it was released.
C25_SetPipelineReplaces ==
    /\ pipeline = IF given = <<>> THEN NULL ELSE given[Len(given)]
    /\ \A p \in Pipelines :
           /\ pipeUnrefs[p] = Given(p) - (IF pipeline = p THEN 1 ELSE 0)
           /\ pipeStops[p] = pipeUnrefs[p]

\* C25 witness: three different pipelines were given one after the other; the
\* third is attached, the first two were stopped and released once each.
C25_Witness ==
    /\ given = <<1, 2, 3>> /\ pipeline = 3
    /\ pipeUnrefs[1] = 1 /\ pipeUnrefs[2] = 1 /\ pipeUnrefs[3] = 0
    /\ pipeStops[1] = 1 /\ pipeStops[2] = 1

(***************************************************************************)
(* Claims on the worker's lifetime                                         *)
(***************************************************************************)

\* The places of enet_thread_func at which the worker uses the queue, the peer
\* or the host.
InIteration == {"drain", "send", "flush", "service", "handle"}

\* C31: a step that releases queue n or destroys host n comes after
\* os_thread_helper_stop on worker n and finds that worker gone; on the step on
\* which the caller's disconnect() returns no worker is alive; and no worker is
\* inside an iteration on a released queue or a destroyed host.
C31_StopJoinReleaseInOrder ==
    [][ /\ \A n \in Sessions :
               (unrefs'[n] > unrefs[n] \/ destroys'[n] > destroys[n])
               => stops[n] >= 1 /\ wpc'[n] \notin Alive
        /\ ((cpc = "disc_join" \/ ndisc' > ndisc) /\ cpc' = "idle")
           => \A n \in Sessions : wpc'[n] \notin Alive
        /\ \A n \in Sessions : wpc'[n] \in InIteration => ~WorkerTouchesFreed' ]_vars

\* C32: no step of another thread operates on peer n or host n while worker n
\* is inside an iteration: enet_peer_disconnect and enet_peer_reset on peer n,
\* and enet_host_destroy on host n, find worker n outside its iteration; a send
\* call gives nothing to enet_peer_send itself; and enet_host_create and
\* enet_host_connect run while no worker is inside an iteration.
C32_WorkerOwnsTransport ==
    [][ /\ \A n \in Sessions :
               (resets'[n] > resets[n] \/ destroys'[n] > destroys[n])
               => wpc[n] \notin InIteration
        /\ nsend' > nsend => sent' = sent
        /\ hostConnects' > hostConnects
           => \A n \in Sessions : wpc[n] \notin InIteration ]_vars

\* C33: a worker that connect() has started leaves its loop only after
\* os_thread_helper_stop has been called on it: the step on which worker n
\* exits comes after a stop of worker n.
C33_WorkerRunsUntilStopped ==
    [][ \A n \in Sessions :
            (wpc[n] \in Alive /\ wpc'[n] = "exited") => stops[n] >= 1 ]_vars

\* C34: a worker on which os_thread_helper_stop has been called begins no
\* further iteration and eventually leaves its loop, and a join the caller
\* waits in eventually returns (unless the process ends first).
C34_StoppedWorkerTerminates ==
    /\ [][ \A n \in Sessions :
               (stops[n] >= 1 /\ wpc[n] = "check") => wpc'[n] \in {"check", "exited"} ]_vars
    /\ \A n \in Sessions :
           []((stops[n] >= 1 /\ wpc[n] \in Alive)
              => <>(wpc[n] \notin Alive \/ crashed # "no"))
    /\ [](cpc \in {"disc_join", "conn_join"}
          => <>(cpc \notin {"disc_join", "conn_join"} \/ crashed # "no"))

\* C34 witness: disconnect() has signalled the stop and waits in the join while
\* the worker, in the iteration in progress, has an event to handle.
C34_Witness ==
    /\ cpc = "disc_join" /\ cjoin = 1 /\ stops[1] = 1 /\ ~running
    /\ wpc[1] = "handle" /\ crashed = "no"

\* C35: the steps of worker n follow each other in the order of the loop body:
\* from the loop test to the pop; from the pop to enet_peer_send while the
\* queue holds a packet and to the flush exactly when it is empty; from the
\* send back to the pop; from the flush to the wait; from the wait to the loop
\* test when no event arrived and to the dispatch when one did; from the
\* dispatch to the next dispatch or to the loop test, never to the wait.
C35_IterationOrder ==
    [][ \A n \in Sessions :
            (wpc'[n] # wpc[n] /\ wpc[n] \in Alive)
            => /\ wpc[n] = "check" => wpc'[n] \in {"drain", "exited"}
               /\ wpc[n] = "drain"
                  => /\ wpc'[n] \in {"send", "flush"}
                     /\ wpc'[n] = "flush" <=> queue[packet_queue] = <<>>
               /\ wpc[n] = "send" => wpc'[n] = "drain"
               /\ wpc[n] = "flush" => wpc'[n] = "service"
               /\ wpc[n] = "service"
                  => /\ wpc'[n] \in {"check", "handle"}
                     /\ wpc'[n] = "handle" <=> event'[n] # ENET_EVENT_TYPE_NONE
               /\ wpc[n] = "handle" => wpc'[n] = "check" /\ event'[n] = ENET_EVENT_TYPE_NONE ]_vars

\* C35 witness: no command was ever queued, and the worker has flushed and is
\* dispatching an event that arrived during the wait.
C35_Witness ==
    /\ nsend = 0 /\ sent = <<>> /\ queue[1] = <<>>
    /\ wpc[1] = "handle" /\ event[1] = ENET_EVENT_TYPE_RECEIVE /\ crashed = "no"

(***************************************************************************)
(* Claims on the status and on the assertions of the callback              *)
(***************************************************************************)

\* C37: in every reachable state the status is idle or connecting, and
\* my_connection_send_bytes returns false.
C37_StatusIdleOrConnecting ==
    /\ status \in {MY_STATUS_IDLE_NOT_CONNECTED, MY_STATUS_CONNECTING}
    /\ ~my_connection_send_bytes(status)

\* C37 witness: an attempt failed, a later one succeeded and its pipeline is
\* playing, the worker handles the CONNECT event of the transport, and the
\* status is connecting.
C37_Witness ==
    /\ status = MY_STATUS_CONNECTING
    /\ attempt[1].st = "done" /\ attempt[1].err
    /\ attempt[2].out = "playing" /\ 2 \in playing
    /\ wpc[2] = "handle" /\ event[2] = ENET_EVENT_TYPE_CONNECT /\ crashed = "no"

\* The number of times the callback of attempt k emitted signal sig.
Emitted(k, sig) == Cardinality({i \in DOMAIN emitted[k] : emitted[k][i] = sig})

\* C38: the callback of an attempt emits on-need-pipeline at most once, only
\* when the attempt of a connect() made has completed without error, and after
\* websocket-connected; and a pipeline was set to playing for an attempt only
\* when on-need-pipeline was emitted for it and the pipeline was given to
\* set-pipeline.
C38_NeedPipelineOncePerConnect ==
    \A k \in Sessions :
        /\ needEmits[k] <= 1
        /\ Emitted(k, "on-need-pipeline") = needEmits[k]
        /\ needEmits[k] = 1
           => /\ k <= nconn /\ attempt[k].st = "done" /\ ~attempt[k].err
              /\ \E i, j \in DOMAIN emitted[k] :
                     /\ i < j
                     /\ emitted[k][i] = "websocket-connected"
                     /\ emitted[k][j] = "on-need-pipeline"
        /\ plays[k] >= 1
           => /\ plays[k] = 1 /\ needEmits[k] = 1
              /\ \E i \in DOMAIN given : given[i] = k

\* C38 witness: the first attempt succeeded and no pipeline was attached; the
\* second one succeeded and its pipeline was attached and set to playing.
C38_Witness ==
    /\ needEmits[1] = 1 /\ plays[1] = 0 /\ attempt[1].out = "nopipe"
    /\ needEmits[2] = 1 /\ plays[2] = 1 /\ 2 \in playing /\ pipeline = 2
    /\ crashed = "no"

\* C39: g_assert(!conn->ws) at the start of the completion callback never
\* fails: no callback runs while the connection holds a signaling socket.
C39_NoSocketWhenCallbackRuns == crashed # "assert_ws"

\* C40: g_assert_null(conn->pipeline) before the on-need-pipeline emission
\* never fails: no attempt succeeds while a pipeline is attached.
C40_NoPipelineWhenSignalingSucceeds == crashed # "assert_pipeline"

====
